---- MODULE Spec2Model ----
(***************************************************************************)
(* The card-creation workflow of the anki-translator frontend: App (shared *)
(* state and routes), CameraPage, WordSelectPage and TranslatePage, and    *)
(* the requests they have in flight.  Every async handler is cut at its    *)
(* awaits: the part up to the first await is the action of the user's      *)
(* intent, the part after an await is the action that resolves that call.  *)
(* A page's local state lives while its route is shown; a setter called    *)
(* after the page was unmounted does nothing, while App's setters,         *)
(* navigate() and further api calls of a continuation still take effect.   *)
(* The credential is the module variable of the api client and its copy in *)
(* localStorage; a 401 clears both and starts the load of /login, and the  *)
(* continuations of the requests still pending run until that load.        *)
(***************************************************************************)
EXTENDS Naturals, Sequences, FiniteSets, TLC

(* ------------------------------ bounds --------------------------------- *)
\* requests that may be in flight at once when a user intent starts another
MaxInFlight == 2
\* cards the session shown may create
MaxCards == 2

(* ------------------------------ values --------------------------------- *)
\* an absent value (null) is the empty set, a present value x is {x}
None == {}
Some(x) == {x}
The(s) == CHOOSE x \in s : TRUE

\* the words the extraction engine finds on a photo
Words == <<"Hund">>
OcrResults == {<<>>, Words}
WordSet == {Words[i] : i \in 1..Len(Words)}
DeckIds == {"", "German::Vocabulary"}

\* the translate responses for word w: no candidate, exactly one, several
Option(w, t) == [word |-> w, translation |-> t]
TranslateResults(w) ==
    {<<>>, <<Option(w, "dog")>>, <<Option(w, "dog"), Option(w, "hound")>>}
\* the buttons of the choosing view
Buttons == 1..2

\* the field sets the formatting engine may answer with for an option
PlainFields(opt) == [Front |-> opt.word, Back |-> opt.translation]
NativeFields(opt) == [Front |-> opt.word, Back |-> opt.translation, Native |-> "nativ"]
Drafts(opt) ==
    { [note_type_id |-> "basic", fields |-> PlainFields(opt)],
      [note_type_id |-> "basic", fields |-> NativeFields(opt)] }

\* the detail string of a failed response
Detail == "detail"
\* how a call fails: with a 401, or with any other status
Failures == {"fail", "unauthorized"}
\* A body either carries a detail or is no JSON or carries none, and request()
\* reads the body of a 401 as it reads any other: of the two, the failures with
\* another status carry a detail here and the 401 carries none.
DetailOf(f) == IF f = "unauthorized" THEN None ELSE Some(Detail)
StatusText(f) == IF f = "unauthorized" THEN "Unauthorized" ELSE "Internal Server Error"

\* faulty variant: the status text is thrown whatever the body
ErrorMessageStatus(f) == StatusText(f)

\* request(): error = await res.json().catch(() => ({ detail: res.statusText }));
\* throw new Error(error.detail || res.statusText), whose message the catch of
\* the caller sets as the error
ErrorMessage(f) ==
    LET error == IF DetailOf(f) = None THEN StatusText(f) ELSE The(DetailOf(f))
    IN IF error # "" THEN error ELSE StatusText(f)
\* the access token the login call answers with
Token == "tok"
NoNativeMsg == "Please set your native language in Settings first."

VARIABLES
    route,            \* the location shown by the router
    ocrWords,         \* App: ocrWords
    selectedWord,     \* App: selectedWord
    selectedDeckId,   \* App: selectedDeckId
    storedDeckId,     \* localStorage "selectedDeckId": absent or a deck id
    cam,              \* CameraPage: loading, error
    ws,               \* WordSelectPage: checking, duplicate
    tp,               \* TranslatePage: phase, error, translations, ...
    net,              \* the requests in flight, each with its continuation's captures
    cards,            \* the persistence collaborator: status of each card of the session
    hist,             \* history of the mounted TranslatePage's session
    ev,               \* the step taken last
    auth,             \* api client: authToken, localStorage "token", pending reload
    lp                \* LoginPage: loading, error

vars == <<route, ocrWords, selectedWord, selectedDeckId, storedDeckId, cam, ws, tp, net, cards, hist, ev,
          auth, lp>>

(* --------------------------- initial states ---------------------------- *)
CamInit == [loading |-> FALSE, error |-> ""]
WsInit == [checking |-> None, duplicate |-> None]
LpInit == [loading |-> FALSE, error |-> ""]

(* ------------------------------- the deck ------------------------------ *)
\* faulty variant: the key is written only when it is absent
StoreDeckOnce(raw, id) == IF raw = None THEN Some(id) ELSE raw

\* setSelectedDeckId: localStorage.setItem("selectedDeckId", id)
StoreDeck(raw, id) == Some(id)

\* App: localStorage.getItem("selectedDeckId") || ""
StoredDeck(raw) == IF raw = None THEN "" ELSE The(raw)

(* ------------------------------ credential ----------------------------- *)
\* mem is authToken, disk is localStorage's "token"; reloading: window.location.href
\* was assigned and the document has not been replaced yet
Auth(mem, disk, reloading) == [mem |-> mem, disk |-> disk, reloading |-> reloading]

\* setToken
SetToken(a, token) == [a EXCEPT !.mem = token, !.disk = token]

\* faulty variant: a 401 on the login call clears the credential as well
OnFailureAlwaysClears(a, op, f) ==
    IF f = "unauthorized" THEN Auth(None, None, TRUE) ELSE a

\* request: a 401 on any path but /auth/login clears the token and loads /login
OnFailure(a, op, f) ==
    IF f = "unauthorized" /\ op # "login"
    THEN [SetToken(a, None) EXCEPT !.reloading = TRUE]
    ELSE a

\* the user acts on the document shown; once it is being replaced only the
\* continuations of the requests in flight still run
Shown == ~auth.reloading

(* --------------------------- requests in flight ------------------------ *)
\* the page whose handler awaits a request of this kind
\* the paths of App's routes; CardsPage and ConfigPage are modelled by their
\* routes alone: what they load is shown on them and kept nowhere else
Paths == {"/login", "/", "/words", "/translate", "/cards", "/config"}

PageOf(op) ==
    CASE op = "ocr" -> "/"
      [] op = "login" -> "/login"
      [] op = "checkDuplicate" -> "/words"
      [] op = "dropped" -> ""
      [] OTHER -> "/translate"

\* net maps each request in flight to the number of copies of it in flight
NoCalls == [c \in {} |-> 0]
Count(n, c) == IF c \in DOMAIN n THEN n[c] ELSE 0
Put(n, c) == [x \in DOMAIN n \cup {c} |-> Count(n, x) + (IF x = c THEN 1 ELSE 0)]
Take(n, c) ==
    [x \in {y \in DOMAIN n : y # c \/ n[y] > 1} |-> IF x = c THEN n[x] - 1 ELSE n[x]]

RECURSIVE Size(_)
Size(n) ==
    IF DOMAIN n = {} THEN 0
    ELSE LET c == CHOOSE x \in DOMAIN n : TRUE
         IN n[c] + Size([x \in DOMAIN n \ {c} |-> n[x]])

\* live: the page that awaits the response is still mounted
Call(op, live, word, opt, via, cardId) ==
    [op |-> op, live |-> live, word |-> word, opt |-> opt, via |-> via, cardId |-> cardId]

CanSend == Size(net) < MaxInFlight

\* A translate, formatCard or getMe call whose page is gone: its continuation
\* sets state on no page and calls at most formatCard, whose response is dropped
\* alike, so the chain is one record until its last response.
Dropped == Call("dropped", FALSE, "", None, "", 0)

\* unmounting the page at route r: its pending continuations lose their page.
\* An acceptCard call without its page no longer tells which card it is for.
Stale(c, r) ==
    IF PageOf(c.op) # r THEN c
    ELSE IF c.op \in {"translate", "getMe", "formatCard"}
         THEN Dropped
         ELSE [c EXCEPT !.live = FALSE, !.cardId = 0]
Unmount(n, r) ==
    [d \in {Stale(c, r) : c \in DOMAIN n} |->
        Size([c \in {x \in DOMAIN n : Stale(x, r) = d} |-> n[c]])]

TpInit ==
    [phase |-> "translating", error |-> "", translations |-> <<>>,
     chosenTranslation |-> None, cardData |-> None,
     saving |-> FALSE, addingNative |-> FALSE]

\* what the session has done since TranslatePage got its word
HistInit ==
    [created |-> FALSE,    \* a createCard call of the session has succeeded
     made |-> {},          \* the ids those createCard calls returned
     autoRun |-> FALSE,    \* the last translate response had exactly one candidate
                           \* and Preview was not reached since
     lastFmt |-> None]     \* result of the last formatCard call that succeeded

\* the steps the properties below speak of are recorded; any other step is Other
Ev(op, res, live, arg) == [op |-> op, res |-> res, live |-> live, arg |-> arg]
Other == Ev("other", "", TRUE, "")
\* a failure is recorded when it is a 401, and when it is that of a call of
\* TranslatePage with the page still shown; of a 401 answered to a call whose
\* page was left, only a login call's is told apart
FailEv(c, f, arg) ==
    IF f = "unauthorized" \/ (c.live /\ PageOf(c.op) = "/translate")
    THEN Ev(IF c.live \/ c.op = "login" THEN c.op ELSE "request", f, c.live,
            IF c.live THEN arg ELSE "")
    ELSE Other

\* The cards followed are those the session shown has created.
NoCards == [i \in {} |-> ""]
\* the id createCard answers with
NewId(cs) == CHOOSE i \in 1..MaxCards : i \notin DOMAIN cs /\ \A j \in 1..(i-1) : j \in DOMAIN cs

\* ProtectedRoute runs when App renders, that is when App's state changed; a
\* navigation alone re-renders the routes below it only
ProtectedRoute(r, tok, rendered) ==
    IF rendered /\ tok = None /\ r # "/login" THEN "/login" ELSE r

\* the document is loaded at any path (a link, the address bar); authToken is
\* read from localStorage, and ProtectedRoute sends a user without a token to
\* /login
Init ==
    /\ \E t \in {None, Some(Token)} : auth = Auth(t, t, FALSE)
    /\ \E r \in Paths : route = ProtectedRoute(r, auth.mem, TRUE)
    /\ lp = LpInit
    /\ ocrWords = <<>>
    /\ selectedWord = ""
    /\ storedDeckId \in {None} \cup {Some(d) : d \in DeckIds}
    /\ selectedDeckId = StoredDeck(storedDeckId)
    /\ cam = CamInit
    /\ ws = WsInit
    /\ tp = TpInit
    /\ net = NoCalls
    /\ cards = NoCards
    /\ hist = HistInit
    /\ ev = Other

(* ------------------------------ navigation ----------------------------- *)
\* loadTranslations up to its await (TranslatePage's effect on [word])
LoadStart(t) == [t EXCEPT !.phase = "translating", !.error = ""]
TranslateCall(w) == Call("translate", TRUE, w, None, "", 0)

\* navigate(r) with w the selected word after this step, n the requests left in
\* flight, tok the token after this step and rendered whether App renders.  On
\* a new route the page shown is unmounted and the page of the new route is
\* mounted with fresh state; TranslatePage's effect runs on mount and whenever
\* its word prop changes, and does nothing for an empty word.
Go(r, w, n, tok, rendered) ==
    LET to == ProtectedRoute(r, tok, rendered) IN
    IF to = route
    THEN /\ route' = route
         /\ cam' = cam
         /\ ws' = ws
         /\ lp' = lp
         /\ IF to = "/translate" /\ w # selectedWord /\ w # ""
            THEN /\ tp' = LoadStart(tp)
                 /\ net' = Put(n, TranslateCall(w))
                 /\ hist' = HistInit
                 /\ cards' = NoCards
            ELSE /\ tp' = tp
                 /\ net' = n
                 /\ hist' = hist
                 /\ cards' = cards
    ELSE LET m == Unmount(n, route) IN
         /\ route' = to
         /\ cam' = CamInit
         /\ ws' = WsInit
         /\ lp' = LpInit
         /\ tp' = IF to = "/translate" /\ w # "" THEN LoadStart(TpInit) ELSE TpInit
         /\ net' = IF to = "/translate" /\ w # "" THEN Put(m, TranslateCall(w)) ELSE m
         /\ hist' = HistInit
         /\ cards' = NoCards

\* navigate(r) in a step that leaves the token alone
NavTo(r, w, n) == Go(r, w, n, auth.mem, w # selectedWord)

\* Header: the Camera, Cards and Settings links
NavLink(r) ==
    /\ Shown
    /\ route # "/login"
    /\ r \in {"/", "/cards", "/config"}
    /\ r # route
    /\ NavTo(r, selectedWord, net)
    /\ ev' = Other
    /\ UNCHANGED <<ocrWords, selectedWord, selectedDeckId, storedDeckId, auth>>

\* ConfigPage: the Active Deck select
DeckChange(d) ==
    /\ Shown
    /\ route = "/config"
    /\ d \in DeckIds
    /\ d # selectedDeckId
    /\ selectedDeckId' = d
    /\ storedDeckId' = StoreDeck(storedDeckId, d)
    /\ ev' = Ev("deckChange", "", TRUE, d)
    /\ UNCHANGED <<route, ocrWords, selectedWord, cam, ws, tp, net, cards, hist, auth, lp>>

(* ------------------------------ CameraPage ----------------------------- *)
HandleFile ==
    /\ Shown
    /\ route = "/"
    /\ CanSend
    /\ cam' = [loading |-> TRUE, error |-> ""]
    /\ net' = Put(net, Call("ocr", TRUE, "", None, "", 0))
    /\ ev' = Other
    /\ UNCHANGED <<route, ocrWords, selectedWord, selectedDeckId, storedDeckId, ws, tp, cards, hist, auth, lp>>

OcrOk(c, words) ==
    /\ c \in DOMAIN net
    /\ c.op = "ocr"
    /\ words \in OcrResults
    /\ ocrWords' = words
    /\ Go("/words", selectedWord, Take(net, c), auth.mem, TRUE)
    /\ ev' = Ev("ocr", "ok", c.live, words)
    /\ UNCHANGED <<selectedWord, selectedDeckId, storedDeckId, auth>>

\* faulty variant: the failure leaves the loading flag set
OcrFailedLoading(msg) == [loading |-> TRUE, error |-> msg]

\* the catch and the finally of handleFile
OcrFailed(msg) == [loading |-> FALSE, error |-> msg]

OcrFail(c, f) ==
    /\ c \in DOMAIN net
    /\ c.op = "ocr"
    /\ f \in Failures
    /\ auth' = OnFailure(auth, c.op, f)
    /\ cam' = IF c.live THEN OcrFailed(ErrorMessage(f)) ELSE cam
    /\ net' = Take(net, c)
    /\ ev' = FailEv(c, f, "")
    /\ UNCHANGED <<route, ocrWords, selectedWord, selectedDeckId, storedDeckId, ws, tp, cards, hist, lp>>

(* ---------------------------- WordSelectPage --------------------------- *)
\* faulty variant: the duplicate check is made without a deck as well
AlwaysCheck(deckId) == TRUE

\* handleWordClick: the duplicate check needs a deck
NeedsCheck(deckId) == deckId # ""

\* faulty variant: the previous verdict is kept while the new check runs
StartCheckKeepVerdict(s, w) == [s EXCEPT !.checking = Some(w)]

\* handleWordClick: setChecking(word); setDuplicate(null)
StartCheck(s, w) == [checking |-> Some(w), duplicate |-> None]

\* faulty variant: a failed check blocks the word
ProceedsOnlyIfChecked(outcome) == outcome = "nodup"

\* handleWordClick after the await: the else branch and the catch both proceed
Proceeds(outcome) == outcome \in {"nodup"} \cup Failures

\* faulty variant: the word buttons do not depend on the extracted list
WordButtonsOfAnyList(words) == WordSet

\* one button per extracted word; the empty list returns the no-words view,
\* which has only Back to Camera
WordButtons(words) == {words[i] : i \in 1..Len(words)}

\* the word buttons are disabled while checking
WordClick(w) ==
    /\ Shown
    /\ route = "/words"
    /\ w \in WordButtons(ocrWords)
    /\ ws.checking = None
    /\ CanSend
    /\ IF NeedsCheck(selectedDeckId)
       THEN /\ ws' = StartCheck(ws, w)
            /\ net' = Put(net, Call("checkDuplicate", TRUE, w, None, "", 0))
            /\ UNCHANGED <<route, selectedWord, cam, tp, hist, lp, cards>>
       ELSE /\ selectedWord' = w
            /\ NavTo("/translate", w, net)
    /\ ev' = Ev("wordClick", IF ws.duplicate # None THEN "verdict" ELSE "", TRUE, w)
    /\ UNCHANGED <<ocrWords, selectedDeckId, storedDeckId, auth>>

CheckDuplicateDone(c, outcome) ==
    /\ c \in DOMAIN net
    /\ c.op = "checkDuplicate"
    /\ outcome \in {"dup", "nodup"} \cup Failures
    /\ auth' = OnFailure(auth, c.op, outcome)
    /\ IF Proceeds(outcome)
       THEN /\ selectedWord' = c.word
            /\ Go("/translate", c.word, Take(net, c),
                  OnFailure(auth, c.op, outcome).mem, c.word # selectedWord)
       ELSE /\ ws' = IF c.live
                     THEN [checking |-> None,
                           duplicate |-> IF outcome = "dup"
                                         THEN Some([word |-> c.word]) ELSE ws.duplicate]
                     ELSE ws
            /\ net' = Take(net, c)
            /\ UNCHANGED <<route, selectedWord, cam, tp, hist, lp, cards>>
    /\ ev' = Ev("checkDuplicate", outcome, c.live, c.word)
    /\ UNCHANGED <<ocrWords, selectedDeckId, storedDeckId>>

\* the warning is rendered below the word grid, so only for a non-empty list
ProceedAnyway ==
    /\ Shown
    /\ route = "/words"
    /\ Len(ocrWords) > 0
    /\ ws.duplicate # None
    /\ CanSend
    /\ selectedWord' = The(ws.duplicate).word
    /\ NavTo("/translate", The(ws.duplicate).word, net)
    /\ ev' = Ev("proceedAnyway", "", TRUE, The(ws.duplicate).word)
    /\ UNCHANGED <<ocrWords, selectedDeckId, storedDeckId, auth>>

ChooseDifferent ==
    /\ Shown
    /\ route = "/words"
    /\ Len(ocrWords) > 0
    /\ ws.duplicate # None
    /\ ws' = [ws EXCEPT !.duplicate = None]
    /\ ev' = Ev("chooseDifferent", "", TRUE, "")
    /\ UNCHANGED <<route, ocrWords, selectedWord, selectedDeckId, storedDeckId, cam, tp, net, cards, hist, auth, lp>>

BackToCamera ==
    /\ Shown
    /\ route = "/words"
    /\ NavTo("/", selectedWord, net)
    /\ ev' = Other
    /\ UNCHANGED <<ocrWords, selectedWord, selectedDeckId, storedDeckId, auth>>

(* ----------------------------- TranslatePage --------------------------- *)
\* faulty variant: the first candidate wins whenever there is one
AutoAdvanceFirstWins(list) == Len(list) >= 1

\* loadTranslations: auto-advance if only one option
AutoAdvance(list) == Len(list) = 1

\* faulty variant: the option is not set as the chosen translation
FormatStartKeepsChoice(t, opt) == [t EXCEPT !.phase = "formatting", !.error = ""]

\* formatWithTranslation up to its await
FormatStart(t, opt) ==
    [t EXCEPT !.chosenTranslation = Some(opt), !.phase = "formatting", !.error = ""]

FormatCall(live, opt, via) ==
    IF live THEN Call("formatCard", TRUE, "", Some(opt), via, 0)
    ELSE Stale(Call("formatCard", TRUE, "", Some(opt), via, 0), "/translate")

\* faulty variant: the new fields are merged into the previous draft
MergeCardData(old, result) ==
    IF old = None THEN Some(result)
    ELSE LET was == The(old).fields
             now == result.fields
         IN Some([note_type_id |-> result.note_type_id,
                  fields |-> [k \in DOMAIN was \cup DOMAIN now |->
                                 IF k \in DOMAIN now THEN now[k] ELSE was[k]]])

\* formatWithTranslation: setCardData(result)
SetCardData(old, result) == Some(result)

\* faulty variant: a failed translate call shows no error
TranslateFailedSilently(t, msg) == [t EXCEPT !.phase = "choosing"]

\* the catch of loadTranslations
TranslateFailed(t, msg) == [t EXCEPT !.error = msg, !.phase = "choosing"]

TranslateFail(c, f) ==
    /\ c \in DOMAIN net
    /\ c.op = "translate"
    /\ f \in Failures
    /\ auth' = OnFailure(auth, c.op, f)
    /\ tp' = IF c.live THEN TranslateFailed(tp, ErrorMessage(f)) ELSE tp
    /\ hist' = IF c.live THEN [hist EXCEPT !.autoRun = FALSE] ELSE hist
    /\ net' = Take(net, c)
    /\ ev' = FailEv(c, f, "")
    /\ UNCHANGED <<route, ocrWords, selectedWord, selectedDeckId, storedDeckId, cam, ws, cards, lp>>

\* the call to formatWithTranslation is made whether or not the page is still
\* mounted
TranslateOk(c, list) ==
    /\ c \in DOMAIN net
    /\ c.op = "translate"
    /\ list \in TranslateResults(c.word)
    /\ LET rest == Take(net, c)
       IN IF AutoAdvance(list)
          THEN /\ tp' = IF c.live
                        THEN FormatStart([tp EXCEPT !.translations = list], list[1])
                        ELSE tp
               /\ hist' = IF c.live THEN [hist EXCEPT !.autoRun = TRUE] ELSE hist
               /\ net' = Put(rest, FormatCall(c.live, list[1], "load"))
          ELSE /\ tp' = IF c.live
                        THEN [tp EXCEPT !.translations = list, !.phase = "choosing"]
                        ELSE tp
               /\ hist' = IF c.live THEN [hist EXCEPT !.autoRun = FALSE] ELSE hist
               /\ net' = rest
    /\ ev' = IF c.live THEN Ev("translate", "ok", TRUE, "") ELSE Other
    /\ UNCHANGED <<route, ocrWords, selectedWord, selectedDeckId, storedDeckId, cam, ws, cards, auth, lp>>

\* choosing view: one button per candidate
ChooseTranslation(i) ==
    /\ Shown
    /\ route = "/translate"
    /\ selectedWord # ""
    /\ tp.phase = "choosing"
    /\ i \in 1..Len(tp.translations)
    /\ CanSend
    /\ tp' = FormatStart(tp, tp.translations[i])
    /\ net' = Put(net, FormatCall(TRUE, tp.translations[i], "click"))
    /\ ev' = Other
    /\ UNCHANGED <<route, ocrWords, selectedWord, selectedDeckId, storedDeckId, cam, ws, cards, hist, auth, lp>>

\* when handleAddNativeTranslation awaited the call, its finally runs as well
FormatOk(c, d) ==
    /\ c \in DOMAIN net
    /\ c.op = "formatCard"
    /\ c.live
    /\ d \in Drafts(The(c.opt))
    /\ tp' = [tp EXCEPT !.cardData = SetCardData(tp.cardData, d),
                        !.phase = "preview",
                        !.addingNative = IF c.via = "native" THEN FALSE ELSE @]
    /\ hist' = [hist EXCEPT !.lastFmt = Some(d), !.autoRun = FALSE]
    /\ net' = Take(net, c)
    /\ ev' = Ev("formatCard", IF tp.cardData \in {None, Some(d)} THEN "ok" ELSE "replaced",
                TRUE, c.via)
    /\ UNCHANGED <<route, ocrWords, selectedWord, selectedDeckId, storedDeckId, cam, ws, cards, auth, lp>>

\* the last response of a chain of calls whose page is gone: its result is set
\* on no page
DroppedDone(c) ==
    /\ c \in DOMAIN net
    /\ c.op = "dropped"
    /\ net' = Take(net, c)
    /\ ev' = Other
    /\ UNCHANGED <<route, ocrWords, selectedWord, selectedDeckId, storedDeckId, cam, ws, tp,
                   cards, hist, auth, lp>>

\* ... or its failure is shown on no page; request() still acts on a 401
DroppedFail(c, f) ==
    /\ c \in DOMAIN net
    /\ c.op = "dropped"
    /\ f \in Failures
    /\ auth' = OnFailure(auth, c.op, f)
    /\ net' = Take(net, c)
    /\ ev' = FailEv(c, f, "")
    /\ UNCHANGED <<route, ocrWords, selectedWord, selectedDeckId, storedDeckId, cam, ws, tp,
                   cards, hist, lp>>

\* faulty variant: a failed formatCard call leaves the phase in Formatting
FormatFailedStuck(t, msg) == [t EXCEPT !.error = msg]

\* the catch of formatWithTranslation
FormatFailed(t, msg) == [t EXCEPT !.error = msg, !.phase = "choosing"]

FormatFail(c, f) ==
    /\ c \in DOMAIN net
    /\ c.op = "formatCard"
    /\ f \in Failures
    /\ auth' = OnFailure(auth, c.op, f)
    /\ tp' = IF c.live
             THEN [FormatFailed(tp, ErrorMessage(f)) EXCEPT
                      !.addingNative = IF c.via = "native" THEN FALSE ELSE @]
             ELSE tp
    /\ net' = Take(net, c)
    /\ ev' = FailEv(c, f, c.via)
    /\ UNCHANGED <<route, ocrWords, selectedWord, selectedDeckId, storedDeckId, cam, ws, cards, hist, lp>>

\* the preview view is what is rendered when no other phase matched
InPreview ==
    /\ Shown
    /\ route = "/translate"
    /\ selectedWord # ""
    /\ tp.phase = "preview"
    /\ tp.cardData # None

\* faulty variant: the Accept button is never disabled
AcceptNeverDisabled(t) == FALSE

\* preview view: the Accept button has disabled={saving}
AcceptDisabled(t) == t.saving

Accept ==
    /\ InPreview
    /\ ~AcceptDisabled(tp)
    /\ CanSend
    /\ tp' = [tp EXCEPT !.saving = TRUE]
    /\ net' = Put(net, Call("createCard", TRUE, "", None, "", 0))
    /\ ev' = Other
    /\ UNCHANGED <<route, ocrWords, selectedWord, selectedDeckId, storedDeckId, cam, ws, cards, hist, auth, lp>>

\* acceptCard(result.id) is called whether or not the page is still mounted
CreateCardOk(c) ==
    /\ c \in DOMAIN net
    /\ c.op = "createCard"
    /\ IF c.live
       THEN /\ Cardinality(DOMAIN cards) < MaxCards
            /\ cards' = [i \in DOMAIN cards \cup {NewId(cards)} |->
                            IF i \in DOMAIN cards THEN cards[i] ELSE "draft"]
            /\ net' = Put(Take(net, c),
                          Call("acceptCard", TRUE, "", None, c.via, NewId(cards)))
            /\ hist' = [hist EXCEPT !.created = TRUE, !.made = @ \cup {NewId(cards)}]
       ELSE /\ net' = Put(Take(net, c), Call("acceptCard", FALSE, "", None, c.via, 0))
            /\ UNCHANGED <<cards, hist>>
    /\ ev' = Other
    /\ UNCHANGED <<route, ocrWords, selectedWord, selectedDeckId, storedDeckId, cam, ws, tp, auth, lp>>

\* faulty variant: the session is saved although the call failed
AcceptFailedAsSaved(t, msg) == [t EXCEPT !.phase = "saved", !.saving = FALSE]

\* the catch and the finally of handleAccept
AcceptFailed(t, msg) == [t EXCEPT !.error = msg, !.saving = FALSE]

CreateCardFail(c, f) ==
    /\ c \in DOMAIN net
    /\ c.op = "createCard"
    /\ f \in Failures
    /\ auth' = OnFailure(auth, c.op, f)
    /\ tp' = IF c.live THEN AcceptFailed(tp, ErrorMessage(f)) ELSE tp
    /\ net' = Take(net, c)
    /\ ev' = FailEv(c, f, "")
    /\ UNCHANGED <<route, ocrWords, selectedWord, selectedDeckId, storedDeckId, cam, ws, cards, hist, lp>>

AcceptCardOk(c) ==
    /\ c \in DOMAIN net
    /\ c.op = "acceptCard"
    /\ cards' = IF c.live THEN [cards EXCEPT ![c.cardId] = "pending_sync"] ELSE cards
    /\ tp' = IF c.live THEN [tp EXCEPT !.phase = "saved", !.saving = FALSE] ELSE tp
    /\ net' = Take(net, c)
    /\ ev' = Other
    /\ UNCHANGED <<route, ocrWords, selectedWord, selectedDeckId, storedDeckId, cam, ws, hist, auth, lp>>

AcceptCardFail(c, f) ==
    /\ c \in DOMAIN net
    /\ c.op = "acceptCard"
    /\ f \in Failures
    /\ auth' = OnFailure(auth, c.op, f)
    /\ tp' = IF c.live THEN AcceptFailed(tp, ErrorMessage(f)) ELSE tp
    /\ net' = Take(net, c)
    /\ ev' = FailEv(c, f, "")
    /\ UNCHANGED <<route, ocrWords, selectedWord, selectedDeckId, storedDeckId, cam, ws, cards, hist, lp>>

\* handleAddNativeTranslation returns at once without a chosen translation
AddNative ==
    /\ InPreview
    /\ ~tp.addingNative
    /\ tp.chosenTranslation # None
    /\ CanSend
    /\ tp' = [tp EXCEPT !.addingNative = TRUE]
    /\ net' = Put(net, Call("getMe", TRUE, "", tp.chosenTranslation, "", 0))
    /\ ev' = Other
    /\ UNCHANGED <<route, ocrWords, selectedWord, selectedDeckId, storedDeckId, cam, ws, cards, hist, auth, lp>>

\* the profile has a native language: formatWithTranslation(chosenTranslation, lang)
GetMeOk(c) ==
    /\ c \in DOMAIN net
    /\ c.op = "getMe"
    /\ tp' = IF c.live THEN FormatStart(tp, The(c.opt)) ELSE tp
    /\ net' = Put(Take(net, c),
                  IF c.live THEN FormatCall(TRUE, The(c.opt), "native") ELSE c)
    /\ ev' = Other
    /\ UNCHANGED <<route, ocrWords, selectedWord, selectedDeckId, storedDeckId, cam, ws, cards, hist, auth, lp>>

\* faulty variant: the refusal shows nothing
RefuseSilently(t, msg) == [t EXCEPT !.addingNative = FALSE]

\* handleAddNativeTranslation: setError(...) and the finally
Refuse(t, msg) == [t EXCEPT !.error = msg, !.addingNative = FALSE]

\* the profile has no native language
GetMeNoNative(c) ==
    /\ c \in DOMAIN net
    /\ c.op = "getMe"
    /\ tp' = IF c.live THEN Refuse(tp, NoNativeMsg) ELSE tp
    /\ net' = Take(net, c)
    /\ ev' = IF c.live THEN Ev("getMe", "nonative", TRUE, "") ELSE Other
    /\ UNCHANGED <<route, ocrWords, selectedWord, selectedDeckId, storedDeckId, cam, ws, cards, hist, auth, lp>>

GetMeFail(c, f) ==
    /\ c \in DOMAIN net
    /\ c.op = "getMe"
    /\ f \in Failures
    /\ auth' = OnFailure(auth, c.op, f)
    /\ tp' = IF c.live THEN Refuse(tp, ErrorMessage(f)) ELSE tp
    /\ net' = Take(net, c)
    /\ ev' = FailEv(c, f, "")
    /\ UNCHANGED <<route, ocrWords, selectedWord, selectedDeckId, storedDeckId, cam, ws, cards, hist, lp>>

\* the createCard calls in flight when Reject is pressed are marked, and so are
\* the calls their continuations make
Rejected(n) ==
    LET mark(c) == IF c.op = "createCard" /\ c.live
                   THEN [c EXCEPT !.via = "reject"] ELSE c
    IN [d \in {mark(c) : c \in DOMAIN n} |->
           Count(n, d) + (IF d.via = "reject" /\ d.live
                          THEN Count(n, [d EXCEPT !.via = ""]) ELSE 0)]

\* preview view: Reject
Reject ==
    /\ InPreview
    /\ NavTo("/words", selectedWord, Rejected(net))
    /\ ev' = Other
    /\ UNCHANGED <<ocrWords, selectedWord, selectedDeckId, storedDeckId, auth>>

\* choosing view: Back to Words; saved view: Translate Another Word
BackToWords ==
    /\ Shown
    /\ route = "/translate"
    /\ selectedWord # ""
    /\ tp.phase \in {"choosing", "saved"}
    /\ NavTo("/words", selectedWord, net)
    /\ ev' = Other
    /\ UNCHANGED <<ocrWords, selectedWord, selectedDeckId, storedDeckId, auth>>

\* the view of TranslatePage without a word: Back to Words
BackFromNoWord ==
    /\ Shown
    /\ route = "/translate"
    /\ selectedWord = ""
    /\ NavTo("/words", selectedWord, net)
    /\ ev' = Other
    /\ UNCHANGED <<ocrWords, selectedWord, selectedDeckId, storedDeckId, auth>>

\* saved view: New Photo
NewPhoto ==
    /\ Shown
    /\ route = "/translate"
    /\ selectedWord # ""
    /\ tp.phase = "saved"
    /\ NavTo("/", selectedWord, net)
    /\ ev' = Other
    /\ UNCHANGED <<ocrWords, selectedWord, selectedDeckId, storedDeckId, auth>>

(* ------------------------- LoginPage and Header ------------------------ *)
\* handleSubmit up to its await; the button is disabled while loading
LoginSubmit ==
    /\ Shown
    /\ route = "/login"
    /\ ~lp.loading
    /\ CanSend
    /\ lp' = [loading |-> TRUE, error |-> ""]
    /\ net' = Put(net, Call("login", TRUE, "", None, "", 0))
    /\ ev' = Other
    /\ UNCHANGED <<route, ocrWords, selectedWord, selectedDeckId, storedDeckId, cam, ws, tp, cards, hist, auth>>

\* setToken(access_token); navigate("/"), which mounts ProtectedRoute
LoginOk(c) ==
    /\ c \in DOMAIN net
    /\ c.op = "login"
    /\ auth' = SetToken(auth, Some(Token))
    /\ Go("/", selectedWord, Take(net, c), Some(Token), TRUE)
    /\ ev' = Other
    /\ UNCHANGED <<ocrWords, selectedWord, selectedDeckId, storedDeckId>>

LoginFail(c, f) ==
    /\ c \in DOMAIN net
    /\ c.op = "login"
    /\ f \in Failures
    /\ auth' = OnFailure(auth, c.op, f)
    /\ lp' = IF c.live THEN [loading |-> FALSE, error |-> ErrorMessage(f)] ELSE lp
    /\ net' = Take(net, c)
    /\ ev' = FailEv(c, f, "")
    /\ UNCHANGED <<route, ocrWords, selectedWord, selectedDeckId, storedDeckId, cam, ws, tp, cards, hist>>

\* the document at /login replaces the one shown: every component and the api
\* client start afresh, the requests in flight are dropped, and what
\* localStorage holds is read again
Loaded(disk) ==
    /\ auth' = Auth(disk, disk, FALSE)
    /\ route' = "/login"
    /\ ocrWords' = <<>>
    /\ selectedWord' = ""
    /\ cam' = CamInit
    /\ ws' = WsInit
    /\ tp' = TpInit
    /\ lp' = LpInit
    /\ net' = NoCalls
    /\ hist' = HistInit
    /\ cards' = NoCards
    /\ selectedDeckId' = StoredDeck(storedDeckId)
    /\ UNCHANGED storedDeckId

\* Header: Logout is setToken(null); window.location.href = "/login"
Logout ==
    /\ Shown
    /\ route # "/login"
    /\ Loaded(SetToken(auth, None).disk)
    /\ ev' = Other

\* the load that request started on a 401
Reload ==
    /\ auth.reloading
    /\ Loaded(auth.disk)
    /\ ev' = Other

(* ----------------------------- specification --------------------------- *)
Next ==
    \/ \E r \in {"/", "/cards", "/config"} : NavLink(r)
    \/ BackFromNoWord
    \/ \E d \in DeckIds : DeckChange(d)
    \/ HandleFile
    \/ \E c \in DOMAIN net, words \in OcrResults : OcrOk(c, words)
    \/ \E c \in DOMAIN net, f \in Failures : OcrFail(c, f)
    \/ \E w \in WordSet : WordClick(w)
    \/ \E c \in DOMAIN net, o \in {"dup", "nodup"} \cup Failures : CheckDuplicateDone(c, o)
    \/ ProceedAnyway
    \/ ChooseDifferent
    \/ BackToCamera
    \/ \E c \in DOMAIN net, f \in Failures : TranslateFail(c, f)
    \/ \E c \in DOMAIN net : \E list \in TranslateResults(c.word) : TranslateOk(c, list)
    \/ \E i \in Buttons : ChooseTranslation(i)
    \/ \E c \in {x \in DOMAIN net : x.op = "formatCard" /\ x.live} :
           \E d \in Drafts(The(c.opt)) : FormatOk(c, d)
    \/ \E c \in DOMAIN net : DroppedDone(c)
    \/ \E c \in DOMAIN net, f \in Failures : DroppedFail(c, f)
    \/ \E c \in DOMAIN net, f \in Failures : FormatFail(c, f)
    \/ Accept
    \/ \E c \in DOMAIN net : CreateCardOk(c)
    \/ \E c \in DOMAIN net, f \in Failures : CreateCardFail(c, f)
    \/ \E c \in DOMAIN net : AcceptCardOk(c)
    \/ \E c \in DOMAIN net, f \in Failures : AcceptCardFail(c, f)
    \/ AddNative
    \/ \E c \in DOMAIN net : GetMeOk(c)
    \/ \E c \in DOMAIN net : GetMeNoNative(c)
    \/ \E c \in DOMAIN net, f \in Failures : GetMeFail(c, f)
    \/ Reject
    \/ BackToWords
    \/ NewPhoto
    \/ LoginSubmit
    \/ \E c \in DOMAIN net : LoginOk(c)
    \/ \E c \in DOMAIN net, f \in Failures : LoginFail(c, f)
    \/ Logout
    \/ Reload

Spec == Init /\ [][Next]_vars

\* the response to request c, success or failure
Resolve(c) ==
    \/ \E words \in OcrResults : OcrOk(c, words)
    \/ \E f \in Failures : OcrFail(c, f)
    \/ \E o \in {"dup", "nodup"} \cup Failures : CheckDuplicateDone(c, o)
    \/ \E f \in Failures : TranslateFail(c, f)
    \/ \E list \in TranslateResults(c.word) : TranslateOk(c, list)
    \/ /\ c.op = "formatCard" /\ c.live
       /\ \E d \in Drafts(The(c.opt)) : FormatOk(c, d)
    \/ \E f \in Failures : FormatFail(c, f)
    \/ CreateCardOk(c)
    \/ \E f \in Failures : CreateCardFail(c, f)
    \/ AcceptCardOk(c)
    \/ \E f \in Failures : AcceptCardFail(c, f)
    \/ GetMeOk(c)
    \/ GetMeNoNative(c)
    \/ \E f \in Failures : GetMeFail(c, f)

\* a request of kind op that the page shown awaits is answered
Answered(op) == \E c \in DOMAIN net : c.op = op /\ c.live /\ Resolve(c)

\* the requests whose responses the pages await
AwaitedOps ==
    {"ocr", "checkDuplicate", "translate", "formatCard", "createCard", "acceptCard", "getMe"}

\* every network call that a page awaits eventually resolves
LiveSpec == Spec /\ \A op \in AwaitedOps : WF_vars(Answered(op))

(* ------------------------------- properties ---------------------------- *)
\* the requests in flight that satisfy P
Num(n, P(_)) == Size([x \in {y \in DOMAIN n : P(y)} |-> n[x]])

IsCheck(c) == c.op = "checkDuplicate"
IsLiveFormat(c) == c.op = "formatCard" /\ c.live
IsLiveCreate(c) == c.op = "createCard" /\ c.live
IsLiveWorkflow(c) == c.live /\ c.op # "ocr"
CheckCall(w) == Call("checkDuplicate", TRUE, w, None, "", 0)

\* C1, as stated: Auto-advance. After a translate response with exactly one
\* candidate the phase is never Choosing until Preview is reached, and after a
\* response with two or more candidates the phase is Choosing and the session has
\* no formatCard call in flight.
ManyCandidates ==
    (ev.op = "translate" /\ ev.res = "ok" /\ Len(tp.translations) >= 2)
        => (tp.phase = "choosing" /\ Num(net, IsLiveFormat) = 0)
C1_NeverChoosing ==
    /\ hist.autoRun => tp.phase # "choosing"
    /\ ManyCandidates

\* C1, amended: after a translate response with exactly one candidate the phase
\* is Formatting at once, and until Preview is reached it is Choosing only after
\* a formatCard call failed, with that failure's error set; after a response
\* with two or more candidates the phase is Choosing and no formatCard call is
\* in flight.
C1_AutoAdvance ==
    /\ hist.autoRun =>
          \/ tp.phase = "formatting"
          \/ tp.phase = "choosing" /\ tp.error \in {ErrorMessage(f) : f \in Failures}
    /\ (ev.op = "translate" /\ ev.res = "ok" /\ Len(tp.translations) = 1)
          => (tp.phase = "formatting" /\ hist.autoRun
              /\ Count(net, FormatCall(TRUE, tp.translations[1], "load")) >= 1)
    /\ ManyCandidates

\* C1 witness: the single candidate was formatted without a choice and is previewed
C1_Witness ==
    /\ route = "/translate"
    /\ tp.phase = "preview"
    /\ Len(tp.translations) = 1
    /\ ev = Ev("formatCard", "ok", TRUE, "load")
    /\ tp.error = ""

\* C2: Idempotent accept. Once a createCard call of the session has succeeded,
\* the session issues no further createCard call: a retry of Accept only calls
\* acceptCard.
C2_OneCreateCard == ~(hist.created /\ Num(net, IsLiveCreate) > 0)

\* C3: Concurrency guard. At most one request of the workflow session
\* (checkDuplicate, translate, formatCard, getMe, createCard, acceptCard) is
\* in flight.
C3_SingleFlight == Num(net, IsLiveWorkflow) <= 1

\* C4: Stale-response cancellation. The response to a request whose page was
\* left (a duplicate check of WordSelectPage, a request of TranslatePage) sets
\* no selected word, triggers no navigation and issues no further request.
C4_StaleDiscarded ==
    [][\A c \in DOMAIN net :
          (~c.live /\ c.op # "ocr" /\ Count(net', c) < Count(net, c))
             => /\ selectedWord' = selectedWord
                /\ route' = route
                /\ Size(net') < Size(net)]_vars

\* the tapped word is selected and TranslatePage starts on it
ProceededWith(w, live) ==
    /\ selectedWord = w
    /\ route = "/translate"
    /\ ws.checking = None
    /\ live => /\ tp.phase = "translating"
               /\ tp.error = ""
               /\ Count(net, TranslateCall(w)) >= 1

\* the checking flag is set only while the check is in flight
CheckingWhilePending ==
    \A w \in ws.checking : route = "/words" /\ Count(net, CheckCall(w)) = 1

C6_CheckIffDeck ==
    [][ev'.op = "wordClick" =>
          IF selectedDeckId = ""
          THEN /\ selectedWord' = ev'.arg
               /\ route' = "/translate"
               /\ tp'.phase = "translating"
               /\ Num(net', IsCheck) = Num(net, IsCheck)
          ELSE /\ Num(net', IsCheck) = Num(net, IsCheck) + 1
               /\ Count(net', CheckCall(ev'.arg)) = 1
               /\ selectedWord' = selectedWord
               /\ route' = "/words"]_vars

\* C6 witness: a tap without a deck went to Translating
C6_Witness ==
    /\ ev.op = "wordClick"
    /\ selectedDeckId = ""
    /\ route = "/translate"
    /\ selectedWord = ev.arg

\* C7: Duplicate choice point. A duplicate verdict neither selects the word nor
\* enters Translating; while the verdict is shown, only Proceed Anyway selects
\* a word or enters Translating, and it does so with the word that was checked;
\* Choose Different Word clears the verdict and stays in word selection with
\* the selected word unchanged.
C7_ChoicePoint ==
    [][/\ (ev'.op = "checkDuplicate" /\ ev'.res = "dup" /\ ev'.live)
            => /\ ws'.duplicate = Some([word |-> ev'.arg])
               /\ selectedWord' = selectedWord
               /\ route' = "/words"
       /\ (route = "/words" /\ ws.duplicate # None
             /\ (selectedWord' \notin {selectedWord, ""} \/ route' = "/translate"))
            => ev'.op = "proceedAnyway"
       /\ ev'.op = "proceedAnyway"
            => /\ selectedWord' = The(ws.duplicate).word
               /\ route' = "/translate"
               /\ tp'.phase = "translating"
       /\ ev'.op = "chooseDifferent"
            => /\ ws'.duplicate = None
               /\ selectedWord' = selectedWord
               /\ route' = "/words"]_vars

\* C8: The verdict is never cached. Every tap on a word with a deck selected
\* clears the previous verdict and issues a fresh checkDuplicate call for the
\* tapped word.
C8_NoVerdictCache ==
    [][(ev'.op = "wordClick" /\ selectedDeckId # "")
          => /\ ws'.duplicate = None
             /\ ws'.checking = Some(ev'.arg)
             /\ Count(net', CheckCall(ev'.arg)) = Count(net, CheckCall(ev'.arg)) + 1]_vars

\* C8 witness: a word was tapped while a duplicate verdict was shown
C8_Witness ==
    /\ ev.op = "wordClick"
    /\ ev.res = "verdict"
    /\ selectedDeckId # ""
    /\ Count(net, CheckCall(ev.arg)) = 1

\* C9: Draft replacement. The session holds at most one CardDraft, and it is
\* the result of the last formatCard call that succeeded, with none of the
\* fields of an earlier draft merged into it.
C9_DraftReplaced ==
    /\ Cardinality(tp.cardData) <= 1
    /\ tp.cardData = hist.lastFmt

\* C9 witness: Add Native Translation replaced a draft by one with other fields
C9_Witness ==
    /\ ev = Ev("formatCard", "replaced", TRUE, "native")
    /\ tp.phase = "preview"
    /\ \E d \in tp.cardData : "Native" \notin DOMAIN d.fields

\* C10: Saved is terminal. Once the phase is Saved it stays Saved until
\* navigation leaves TranslatePage.
C10_SavedTerminal ==
    [][(route = "/translate" /\ tp.phase = "saved")
          => (tp'.phase = "saved" \/ route' # "/translate")]_vars

\* C11: Reject makes no persistence call. No acceptCard call is issued by the
\* continuation of a createCard call that was in flight when Reject was pressed
\* (createCard itself is issued by Accept alone, which the abandoned page no
\* longer offers).
C11_RejectNoPersistence ==
    \A c \in DOMAIN net : c.op = "acceptCard" => c.via # "reject"

\* a createCard or acceptCard call of the page shown has just failed
AcceptJustFailed == ev.op \in {"createCard", "acceptCard"} /\ ev.res \in Failures /\ ev.live

\* C12: Accept failure recovery. When createCard or acceptCard fails, the phase
\* is Preview with the error set and with the draft and the chosen candidate as
\* they were, and pressing Accept again issues a createCard call and no
\* translate or formatCard call.
C12_AcceptFailureRecovery ==
    [][/\ AcceptJustFailed'
            => /\ tp'.phase = "preview"
               /\ tp'.error = ErrorMessage(ev'.res)
               /\ ~tp'.saving
               /\ tp'.cardData = tp.cardData /\ tp.cardData # None
               /\ tp'.chosenTranslation = tp.chosenTranslation
       /\ (route = "/translate" /\ ~tp.saving /\ tp'.saving)
            => net' = Put(net, Call("createCard", TRUE, "", None, "", 0))]_vars

\* C13: Formatting failure recovery. When a formatCard call fails, whether it
\* was made after a manual choice, by auto-advance or by Add Native
\* Translation, the phase is Choosing with the error set and the candidate list
\* as it was; choosing a candidate then issues a formatCard call for that
\* candidate and no translate call.
C13_FormatFailureRecovery ==
    [][/\ (ev'.op = "formatCard" /\ ev'.res \in Failures /\ ev'.live)
            => /\ tp'.phase = "choosing"
               /\ tp'.error = ErrorMessage(ev'.res)
               /\ tp'.translations = tp.translations
       /\ (route' = "/translate" /\ tp.phase = "choosing" /\ tp'.phase = "formatting")
            => \E i \in 1..Len(tp.translations) :
                  /\ net' = Put(net, FormatCall(TRUE, tp.translations[i], "click"))
                  /\ tp'.chosenTranslation = Some(tp.translations[i])
                  /\ tp'.translations = tp.translations]_vars

\* C13 witness: the formatCard call of Add Native Translation failed and the
\* candidates are offered again
C13_Witness ==
    /\ ev = Ev("formatCard", "fail", TRUE, "native")
    /\ tp.phase = "choosing"
    /\ tp.error = Detail
    /\ Len(tp.translations) = 2

IsFormatCard(c) == c.op = "formatCard"

\* C14: Translation failure. When the translate call fails, the phase goes from
\* Translating to Choosing with a non-empty error, no formatCard call is
\* issued, and the extracted word list is unchanged.
C14_TranslateFailure ==
    [][(ev'.op = "translate" /\ ev'.res \in Failures /\ ev'.live)
          => /\ tp.phase = "translating"
             /\ tp'.phase = "choosing"
             /\ tp'.error # ""
             /\ Num(net', IsFormatCard) = Num(net, IsFormatCard)
             /\ ocrWords' = ocrWords]_vars

\* C14 witness: the translate call for a word of the list has failed
C14_Witness ==
    /\ ev = Ev("translate", "fail", TRUE, "")
    /\ tp.phase = "choosing"
    /\ tp.error = Detail
    /\ ocrWords = Words
    /\ tp.translations = <<>>

\* C15: Scenario C. When the translate call succeeds with no candidate, the
\* session's error is non-empty and the phase is Choosing, the view that leads
\* back to word selection.
C15_NoCandidateIsError ==
    (ev.op = "translate" /\ ev.res = "ok" /\ tp.translations = <<>>)
        => (tp.error # "" /\ tp.phase = "choosing")

\* C16: Add Native Translation is refused when the profile has no native
\* language. The error is set to the instruction, no formatCard call is issued,
\* and the phase, the chosen candidate and the draft are unchanged.
C16_NativeRefused ==
    [][(ev'.op = "getMe" /\ ev'.res = "nonative")
          => /\ tp'.error = NoNativeMsg
             /\ Num(net', IsFormatCard) = Num(net, IsFormatCard)
             /\ tp'.phase = tp.phase
             /\ tp'.chosenTranslation = tp.chosenTranslation
             /\ tp'.cardData = tp.cardData
             /\ ~tp'.addingNative]_vars

\* C16 witness: the refusal is shown in the preview, over the draft
C16_Witness ==
    /\ ev = Ev("getMe", "nonative", TRUE, "")
    /\ tp.phase = "preview"
    /\ tp.error = NoNativeMsg
    /\ tp.cardData # None

\* C17: Whenever the phase is Saved, the session created exactly one card, and
\* that card is pending_sync (acceptCard succeeded on the id createCard
\* returned); the status of a card never goes back from pending_sync.
C17_SavedOneCard ==
    [][/\ (route' = "/translate" /\ tp'.phase = "saved")
            => /\ Cardinality(hist'.made) = 1
               /\ \A i \in hist'.made : i \in DOMAIN cards' /\ cards'[i] = "pending_sync"
       /\ \A i \in DOMAIN cards \cap DOMAIN cards' :
              cards[i] = "pending_sync" => cards'[i] = "pending_sync"]_vars

\* call c is sent in this step: there is one more of it in flight, and not
\* because a page was left with it pending
Sent(c) == Count(net', c) > Count(net, c) /\ (c.live \/ route' = route)

\* C18: Credential fail-fast. No request to a protected endpoint (any but the
\* login call) is sent while no credential is held.
C18_CredentialFailFast ==
    [][\A c \in DOMAIN net' : (c.op # "login" /\ Sent(c)) => auth'.mem # None]_vars

\* the error of the failed call is set on the page that awaits it; the catch of
\* handleWordClick shows none and selects the word instead
ErrorReported(e) ==
    CASE e.op = "ocr" -> cam.error = ErrorMessage(e.res)
      [] e.op = "checkDuplicate" -> selectedWord = e.arg /\ ws.checking = None
      [] OTHER -> tp.error = ErrorMessage(e.res)

\* the last step was a 401 answered to a call the page shown awaits
UnauthorizedReported == (ev.res = "unauthorized" /\ ev.live) => ErrorReported(ev)

\* C19: A 401 on any request but the login call clears the credential in memory
\* and in localStorage and starts the load of /login, which drops the session
\* and shows the login page, and the caller still gets the error; a 401 on the
\* login call leaves the credential as it was.
C19_UnauthorizedClearsToken ==
    [][/\ ev'.res = "unauthorized"
            => IF ev'.op = "login"
               THEN auth' = auth /\ lp'.error = ErrorMessage(ev'.res)
               ELSE /\ auth'.mem = None /\ auth'.disk = None
                    /\ auth'.reloading
                    /\ UnauthorizedReported'
       /\ (auth.reloading /\ ~auth'.reloading)
            => /\ route' = "/login"
               /\ net' = NoCalls
               /\ auth'.mem = auth.disk]_vars

\* C19 witness: the createCard call of the page shown was answered 401
C19_Witness ==
    /\ ev = Ev("createCard", "unauthorized", TRUE, "")
    /\ auth = Auth(None, None, TRUE)
    /\ tp.error = ErrorMessage("unauthorized")
    /\ route = "/translate"

\* the no-words view of WordSelectPage is shown
NoWordsView == route = "/words" /\ ocrWords = <<>>

\* what a successful ocr call leaves: the returned words are stored, the route
\* is /words, no page holds an error, and an empty list shows the no-words view
Extracted(words) ==
    /\ ocrWords = words
    /\ route = "/words"
    /\ cam.error = "" /\ tp.error = ""
    /\ words = <<>> => NoWordsView

\* no word is tapped in the no-words view and no duplicate check starts
NoWordToTap ==
    NoWordsView => (ev'.op # "wordClick" /\ Num(net', IsCheck) <= Num(net, IsCheck))

\* C20: Extraction result handling. A successful ocr call stores the returned
\* words and moves to /words. With an empty list the page shows the no-words
\* view: no error is set and no word can be tapped.
C20_AnyExtractionResult ==
    [][/\ (ev'.op = "ocr" /\ ev'.res = "ok") => Extracted(ev.arg)'
       /\ NoWordToTap]_vars

\* C20, amended: the same, for an ocr call that succeeds while the credential
\* is held. Once a 401 has cleared the credential, the words are stored but
\* ProtectedRoute turns the navigation to /words into one to /login.
C20_ExtractionResult ==
    [][/\ (ev'.op = "ocr" /\ ev'.res = "ok")
            => /\ ocrWords' = ev'.arg
               /\ auth.mem # None => Extracted(ev.arg)'
               /\ auth.mem = None => route' = "/login"
       /\ NoWordToTap]_vars

\* C20 witness: the extraction has just returned an empty list
C20_Witness ==
    /\ ev = Ev("ocr", "ok", TRUE, <<>>)
    /\ NoWordsView
    /\ cam.error = ""
    /\ auth.mem # None

\* a call of TranslatePage that starts an attempt (acceptCard continues one)
IsAttempt(c) == c.live /\ c.op \in {"translate", "formatCard", "createCard", "getMe"}

\* C21: lastError is cleared on every new attempt. When a translate,
\* formatCard, createCard or getMe call of the page shown is issued, the error
\* of the page is empty.
C21_ErrorClearedOnAttempt ==
    [][\A c \in DOMAIN net' :
          (IsAttempt(c) /\ Count(net', c) > Count(net, c)) => tp'.error = ""]_vars

C23_AuthGuard ==
    /\ []((auth.mem = None /\ ~auth.reloading) => route = "/login")
    /\ [][(auth'.mem = None /\ route' # route) => route' = "/login"]_vars

\* a call of a handleAccept of the page shown
IsLiveAccept(c) == c.live /\ c.op \in {"createCard", "acceptCard"}

\* C24: No two createCard calls of the same session are in flight at once.
\* While a handleAccept of the page shown is pending (its createCard or its
\* acceptCard call is in flight) saving is set, which disables Accept: at most
\* one such call is in flight.
C24_OneAcceptInFlight ==
    /\ Num(net, IsLiveCreate) <= 1
    /\ Num(net, IsLiveAccept) <= 1
    /\ Num(net, IsLiveAccept) = 1 => tp.saving

\* C24 witness: a createCard call is in flight and Accept is disabled
C24_Witness ==
    /\ Num(net, IsLiveCreate) = 1
    /\ route = "/translate"
    /\ tp.phase = "preview"
    /\ AcceptDisabled(tp)

\* a translate, formatCard, createCard or acceptCard call of the page shown has
\* just failed with a response that carries a detail
DetailedFailure ==
    /\ ev.op \in {"translate", "formatCard", "createCard", "acceptCard"}
    /\ ev.res \in Failures
    /\ ev.live
    /\ DetailOf(ev.res) # None

\* C25: When a translate, formatCard, createCard or acceptCard call fails with
\* a response that carries a detail string, the error set on the page is that
\* detail string, unmodified.
C25_DetailShown == DetailedFailure => tp.error = The(DetailOf(ev.res))

\* C25 witness: the acceptCard call failed and its detail is the error shown in
\* the preview
C25_Witness ==
    /\ ev = Ev("acceptCard", "fail", TRUE, "")
    /\ route = "/translate"
    /\ tp.phase = "preview"
    /\ tp.error = Detail

\* the last step was the failure of a translate, formatCard, createCard,
\* acceptCard or checkDuplicate call of the page shown
WorkflowFailure ==
    /\ ev.op \in {"translate", "formatCard", "createCard", "acceptCard", "checkDuplicate"}
    /\ ev.res \in Failures
    /\ ev.live

\* C26: No failure of translate, formatCard, createCard, acceptCard or
\* checkDuplicate returns the workflow to the extraction step or changes the
\* extracted word list: the failing step leaves the list and shows no camera
\* page, and so does the load of /login that a 401 among them starts.
C26_FailureKeepsWords ==
    [][/\ WorkflowFailure' => (ocrWords' = ocrWords /\ route' # "/")
       /\ (WorkflowFailure /\ auth.reloading /\ ~auth'.reloading)
            => ocrWords' = ocrWords]_vars

\* a call that Add Native Translation makes for the page shown
IsNativeLookup(c) ==
    c.live /\ (c.op = "getMe" \/ (c.op = "formatCard" /\ c.via = "native"))

\* C27: With an empty deck id, Add Native Translation issues no getMe call
\* and no formatCard call.
C27_NoNativeLookupWithoutDeck ==
    selectedDeckId = "" => Num(net, IsNativeLookup) = 0

\* a createCard call, of the page shown or not, is answered in this step
CreateCardAnswered(live) ==
    \E d \in DOMAIN net :
        d.op = "createCard" /\ d.live = live /\ Count(net', d) < Count(net, d)

\* C28: Accept ordering. An acceptCard call is issued only in the step in which
\* a createCard call succeeds, and for the page shown it carries the id of the
\* card that step has created; when a createCard call fails, no acceptCard call
\* is issued and the phase stays as it was; the phase becomes Saved only in the
\* step in which an acceptCard call succeeds, which makes its card pending_sync.
C28_AcceptOrdering ==
    [][/\ \A c \in DOMAIN net' :
             (c.op = "acceptCard" /\ Sent(c))
                => /\ CreateCardAnswered(c.live)
                   /\ c.live => /\ c.cardId \in DOMAIN cards' \ DOMAIN cards
                                /\ cards'[c.cardId] = "draft"
       /\ (ev'.op = "createCard" /\ ev'.res \in Failures)
             => /\ \A c \in DOMAIN net' : c.op = "acceptCard" => ~Sent(c)
                /\ tp'.phase = tp.phase
                /\ cards' = cards
       /\ (route' = "/translate" /\ tp.phase # "saved" /\ tp'.phase = "saved")
             => \E c \in DOMAIN net :
                   /\ c.op = "acceptCard" /\ c.live
                   /\ net' = Take(net, c)
                   /\ cards[c.cardId] = "draft"
                   /\ cards'[c.cardId] = "pending_sync"]_vars

\* C28 witness: the acceptCard call for the card just created is in flight
C28_Witness ==
    /\ route = "/translate"
    /\ tp.saving
    /\ \E c \in DOMAIN net :
          /\ c.op = "acceptCard" /\ c.live
          /\ c.cardId \in hist.made
          /\ cards[c.cardId] = "draft"
    /\ Num(net, IsLiveCreate) = 0

\* C29: Whenever the phase is Preview, the chosen candidate and the draft are
\* both set, the chosen candidate is one of the translation candidates, and the
\* draft is the result of the last formatCard call that succeeded, a call made
\* for that candidate.
C29_PreviewInvariant ==
    (route = "/translate" /\ tp.phase = "preview")
       => /\ tp.chosenTranslation # None
          /\ tp.cardData # None
          /\ \E i \in 1..Len(tp.translations) :
                tp.translations[i] = The(tp.chosenTranslation)
          /\ The(tp.cardData) \in Drafts(The(tp.chosenTranslation))
          /\ tp.cardData = hist.lastFmt

\* C29 witness: the preview of the second of two candidates, with the native
\* translation added
C29_Witness ==
    /\ route = "/translate"
    /\ tp.phase = "preview"
    /\ Len(tp.translations) = 2
    /\ tp.chosenTranslation = Some(tp.translations[2])
    /\ tp.cardData = Some([note_type_id |-> "basic",
                           fields |-> NativeFields(tp.translations[2])])

\* C30: In word selection at most one checkDuplicate call is in flight at any
\* time, and while the page awaits one the word buttons are disabled (checking
\* is set) and the duplicate warning with its Proceed Anyway is hidden.
C30_OneCheckInFlight ==
    route = "/words"
       => /\ Num(net, IsCheck) <= 1
          /\ Num(net, IsCheck) = 1 => (ws.checking # None /\ ws.duplicate = None)

\* TranslatePage shows the translating or the formatting view
InTransientPhase ==
    /\ route = "/translate"
    /\ selectedWord # ""
    /\ tp.phase \in {"translating", "formatting"}

\* C31: When every network call eventually resolves, every transient state is
\* left: the Translating and Formatting views give way to Choosing, Preview
\* or Saved (or the page is left), and checking, saving, addingNative and the
\* loading flag of the extraction are each reset, on success and on failure.
C31_TransientLeft ==
    /\ InTransientPhase ~> ~InTransientPhase
    /\ (ws.checking # None) ~> (ws.checking = None)
    /\ tp.saving ~> ~tp.saving
    /\ tp.addingNative ~> ~tp.addingNative
    /\ cam.loading ~> ~cam.loading

\* C31 witness: the extraction failed and the loading flag is reset, with the
\* error shown on the camera page
C31_Witness ==
    /\ route = "/"
    /\ ~cam.loading
    /\ cam.error = Detail
    /\ net = NoCalls

====
